---- MODULE Spec2Model ----
(***************************************************************************)
(* FastPy: route registry, matcher, parameter binder and HTTP/1.1 codec.   *)
(*                                                                         *)
(* Text is modelled by its structure.  A path or route string is the       *)
(* sequence that str.split("/") yields ("/items/5" is <<"", "items", "5">>,*)
(* "/items/" is <<"", "items", "">>), so "/".join and split are inverse.   *)
(* Serialized output is the sequence of the pieces the f-strings glue      *)
(* together.  Python values are uniform records (t = type tag).            *)
(***************************************************************************)
EXTENDS Integers, Sequences, FiniteSets, TLC

(***************************************************************************)
(* Bound of the model.                                                     *)
(***************************************************************************)
MaxRoutes == 2

(***************************************************************************)
(* Python values.                                                          *)
(***************************************************************************)
StrV(x) == [t |-> "str", s |-> x, n |-> 0]
IntV(k) == [t |-> "int", s |-> "", n |-> k]
NoneV == [t |-> "None", s |-> "", n |-> 0]
\* Headers() and Cookies() instances: the sentinel defaults of a handler
HeadersObj == [t |-> "Headers", s |-> "", n |-> 0]
CookiesObj == [t |-> "Cookies", s |-> "", n |-> 0]
\* a pydantic BaseModel instance / a dict / a Response / the live Request,
\* named by the JSON text it dumps to
ModelObj(cls, x) == [t |-> cls, s |-> x, n |-> 0]
DictObj(x) == [t |-> "dict", s |-> x, n |-> 0]
RequestObj == [t |-> "Request", s |-> "", n |-> 0]

\* the decimal strings int() accepts, and their values
Numerals == {"0", "1", "2", "5", "10", "25", "123"}
ParseInt(x) ==
  CASE x = "0" -> 0 [] x = "1" -> 1 [] x = "2" -> 2 [] x = "5" -> 5
    [] x = "10" -> 10 [] x = "25" -> 25 [] x = "123" -> 123
FormatInt(k) ==
  CASE k = 0 -> "0" [] k = 1 -> "1" [] k = 2 -> "2" [] k = 5 -> "5"
    [] k = 10 -> "10" [] k = 25 -> "25" [] k = 123 -> "123"
    [] k = 200 -> "200" [] k = 404 -> "404" [] k = 422 -> "422"
    [] k = 500 -> "500" [] k = 999 -> "999"

(***************************************************************************)
(* Annotations used as converters: var_types[p](value).                    *)
(***************************************************************************)
NoAnn == "<unannotated>"
StructuredTypes == {"StudentIn", "Student"}

\* whether ann(v) returns (TRUE) or raises (FALSE)
ConvOK(ann, v) ==
  CASE ann = "str" -> TRUE
    [] ann = "int" -> \/ v.t = "int"
                      \/ v.t = "str" /\ v.s \in Numerals
    \* BaseModel.__init__ and Request.__init__ take no single positional value
    [] OTHER -> FALSE

\* str(Headers()) and str(Cookies()) of the empty containers are ""
StrOf(v) ==
  CASE v.t = "str" -> v.s
    [] v.t = "int" -> FormatInt(v.n)
    [] v.t = "None" -> "None"
    [] v.t = "Headers" -> ""
    [] v.t = "Cookies" -> ""
    [] OTHER -> v.s

Conv(ann, v) ==
  CASE ann = "str" -> StrV(StrOf(v))
    [] ann = "int" -> IF v.t = "int" THEN v ELSE IntV(ParseInt(v.s))
    [] OTHER -> v

(***************************************************************************)
(* Route templates.                                                        *)
(***************************************************************************)
Placeholders == {"{id}", "{name}", "{param}", "{a}", "{b}"}
VarOf(seg) ==
  CASE seg = "{id}" -> "id" [] seg = "{name}" -> "name"
    [] seg = "{param}" -> "param" [] seg = "{a}" -> "a" [] seg = "{b}" -> "b"

Last(s) == s[Len(s)]
\* str.endswith("/") and s[:-1] on the split form
EndsWithSlash(route) == Len(route) >= 2 /\ Last(route) = ""
StripSlash(route) ==
  IF EndsWithSlash(route) THEN SubSeq(route, 1, Len(route) - 1) ELSE route

RECURSIVE MapVarOf(_)
MapVarOf(segs) ==
  IF segs = <<>> THEN <<>> ELSE <<VarOf(Head(segs))>> \o MapVarOf(Tail(segs))

IsPlaceholder(seg) == seg \in Placeholders

\* RegisteredPaths._get_path_params: (text before the first {..}, all names)
get_path_params(route) ==
  LET vars == {k \in 1..Len(route) : IsPlaceholder(route[k])}
      first == IF vars = {} THEN 0
               ELSE CHOOSE k \in vars : \A j \in vars : k <= j
  IN [prefix |-> IF first = 0 THEN route
                 ELSE SubSeq(route, 1, first - 1) \o <<"">>,
      names |-> MapVarOf(SelectSeq(route, IsPlaceholder))]

SeqRange(s) == {s[i] : i \in 1..Len(s)}
\* the orders in which a Python set may be iterated
Orders(S) ==
  {o \in [1..Cardinality(S) -> S] : \A i, j \in DOMAIN o : i # j => o[i] # o[j]}

(***************************************************************************)
(* Handlers: a signature (inspect.getfullargspec) and what a call returns. *)
(***************************************************************************)
Arg(name, ann) ==
  [name |-> name, ann |-> ann, hasDefault |-> FALSE, default |-> NoneV]
ArgD(name, ann, d) ==
  [name |-> name, ann |-> ann, hasDefault |-> TRUE, default |-> d]

Handler ==
  [get_item |-> [args |-> <<Arg("id", "int")>>, ret |-> NoAnn],
   special |-> [args |-> <<>>, ret |-> NoAnn],
   test_handler |-> [args |-> <<Arg("param", "str")>>, ret |-> NoAnn],
   search |-> [args |-> <<Arg("name", "str"), ArgD("limit", "int", IntV(10))>>,
               ret |-> NoAnn],
   verify_headers |->
     [args |-> <<ArgD("authentication", "str", HeadersObj)>>, ret |-> "str"],
   verify_cookies |-> [args |-> <<ArgD("a", "str", CookiesObj)>>, ret |-> NoAnn],
   create_student |-> [args |-> <<Arg("student", "StudentIn")>>, ret |-> "Student"],
   update_student |->
     [args |-> <<Arg("req", "Request"),
                 ArgD("student", "StudentIn", ModelObj("StudentIn", "{}"))>>,
      ret |-> NoAnn],
   ping |-> [args |-> <<>>, ret |-> "None"],
   count |-> [args |-> <<>>, ret |-> "int"],
   pair |-> [args |-> <<Arg("a", "int"), Arg("b", "str")>>, ret |-> NoAnn],
   twice |-> [args |-> <<Arg("a", "str")>>, ret |-> NoAnn],
   by_token |-> [args |-> <<ArgD("a", "str", HeadersObj)>>, ret |-> NoAnn]]

HandlerIds == DOMAIN Handler

\* function_details.annotations: annotated arguments in order, then "return"
Annotations(h) ==
  LET annotated(a) == a.ann # NoAnn
      pair(a) == [name |-> a.name, ann |-> a.ann]
      as == SelectSeq(Handler[h].args, annotated)
  IN [i \in 1..Len(as) |-> pair(as[i])]
     \o (IF Handler[h].ret # NoAnn
         THEN <<[name |-> "return", ann |-> Handler[h].ret]>> ELSE <<>>)

\* defaults_dict: zip(args[-len(defaults):], defaults)
DefaultsDict(h) ==
  LET args == Handler[h].args
      withD == {i \in 1..Len(args) : args[i].hasDefault}
  IN [nm \in {args[i].name : i \in withD} |->
        args[CHOOSE i \in withD : args[i].name = nm].default]

(***************************************************************************)
(* PathInfo and RegisteredPaths.add_api_route (the classifier).            *)
(***************************************************************************)
NoName == <<>>

\* the loop over annotations.items(): one source per annotated name
RECURSIVE ClassifyFrom(_, _, _, _, _)
ClassifyFrom(anns, i, params, defaults, acc) ==
  IF i > Len(anns) THEN acc
  ELSE LET varname == anns[i].name
           default == IF varname \in DOMAIN defaults
                      THEN defaults[varname] ELSE NoneV
           nxt ==
             IF default.t = "Headers"
             THEN [acc EXCEPT !.headers = @ \cup {varname}]
             ELSE IF default.t = "Cookies"
             THEN [acc EXCEPT !.cookies = @ \cup {varname}]
             ELSE IF varname \in params \/ varname = "return" THEN acc
             ELSE IF default.t \in StructuredTypes THEN [acc EXCEPT !.body = <<varname>>]
             ELSE IF anns[i].ann = "Request"
             THEN [acc EXCEPT !.request_param = <<varname>>]
             ELSE [acc EXCEPT !.query_params = @ \cup {varname}]
       IN ClassifyFrom(anns, i + 1, params, defaults, nxt)

\* the PathInfo that add_api_route builds; order is the iteration order of
\* the set path_params
MakePathInfo(route, h, order) ==
  LET anns == Annotations(h)
      defaults == DefaultsDict(h)
      cls == ClassifyFrom(anns, 1, SeqRange(order), defaults,
               [query_params |-> {}, headers |-> {}, cookies |-> {},
                body |-> NoName, request_param |-> NoName])
  IN [route |-> route,
      handler |-> h,
      path_params |-> order,
      query_params |-> cls.query_params,
      headers |-> cls.headers,
      cookies |-> cls.cookies,
      defaults |-> defaults,
      var_types |-> [nm \in {anns[i].name : i \in 1..Len(anns)} |->
                       anns[CHOOSE i \in 1..Len(anns) : anns[i].name = nm].ann],
      body |-> cls.body,
      response_model |-> IF Handler[h].ret # NoAnn
                         THEN <<Handler[h].ret>> ELSE <<>>,
      request_param |-> cls.request_param]

\* the key add_api_route stores the PathInfo under
OriginalRoute(route) == StripSlash(get_path_params(route).prefix)

\* add_api_route that replaces the list stored under the key
add_api_route_overwrites(rp, route, h, order) ==
  LET key == OriginalRoute(route)
      path_info == MakePathInfo(route, h, order)
  IN (key :> <<path_info>>) @@ rp

\* RegisteredPaths.add_api_route on one method's dict
add_api_route(rp, route, h, order) ==
  LET key == OriginalRoute(route)
      path_info == MakePathInfo(route, h, order)
  IN IF key \in DOMAIN rp
     THEN [rp EXCEPT ![key] = Append(@, path_info)]
     ELSE (key :> <<path_info>>) @@ rp

(***************************************************************************)
(* RegisteredPaths.get_api_path_info (the matcher).                        *)
(***************************************************************************)
\* pathinfo.var_types[var](var_val) inside try/except
SegmentConverts(pathinfo, var, var_val) ==
  /\ var \in DOMAIN pathinfo.var_types
  /\ ConvOK(pathinfo.var_types[var], StrV(var_val))

\* MatchList with a sibling descriptor tried after a converter rejects
RECURSIVE MatchListFallsBack(_, _, _)
MatchListFallsBack(list, j, rest) ==
  IF j > Len(list) THEN [kind |-> "next", info |-> <<>>]
  ELSE IF \/ Len(rest) # Len(list[j].path_params)
          \/ \E x \in 1..Len(rest) :
               ~SegmentConverts(list[j], list[j].path_params[x], rest[x])
       THEN MatchListFallsBack(list, j + 1, rest)
       ELSE [kind |-> "found", info |-> <<list[j]>>]

\* the for loop over self.paths[cnt_path], from list index j
RECURSIVE MatchList(_, _, _)
MatchList(list, j, rest) ==
  IF j > Len(list) THEN [kind |-> "next", info |-> <<>>]
  ELSE IF Len(rest) # Len(list[j].path_params)
       THEN MatchList(list, j + 1, rest)
       ELSE IF \E x \in 1..Len(rest) :
                 ~SegmentConverts(list[j], list[j].path_params[x], rest[x])
            THEN [kind |-> "raise", info |-> <<>>]
            ELSE [kind |-> "found", info |-> <<list[j]>>]

\* SearchFrom with the prefixes tried from the shortest to the longest
RECURSIVE SearchUp(_, _, _)
SearchUp(rp, parts, k) ==
  IF k > Len(parts) THEN [kind |-> "none", info |-> <<>>]
  ELSE LET cnt_path == SubSeq(parts, 1, k)
       IN IF cnt_path \notin DOMAIN rp THEN SearchUp(rp, parts, k + 1)
          ELSE LET m == MatchList(rp[cnt_path], 1,
                                  SubSeq(parts, k + 1, Len(parts)))
               IN IF m.kind = "next" THEN SearchUp(rp, parts, k + 1) ELSE m
SearchFromShortest(rp, parts, k) == SearchUp(rp, parts, 1)

\* SearchFrom that gives up at the first registered prefix
RECURSIVE SearchFromStopsAtPrefix(_, _, _)
SearchFromStopsAtPrefix(rp, parts, k) ==
  IF k < 1 THEN [kind |-> "none", info |-> <<>>]
  ELSE LET cnt_path == SubSeq(parts, 1, k)
       IN IF cnt_path \notin DOMAIN rp
          THEN SearchFromStopsAtPrefix(rp, parts, k - 1)
          ELSE LET m == MatchList(rp[cnt_path], 1,
                                  SubSeq(parts, k + 1, Len(parts)))
               IN IF m.kind = "next" THEN [kind |-> "none", info |-> <<>>]
                  ELSE m

\* the while loop, i counting down (k = i + 1 is the prefix length)
RECURSIVE SearchFrom(_, _, _)
SearchFrom(rp, parts, k) ==
  IF k < 1 THEN [kind |-> "none", info |-> <<>>]
  ELSE LET cnt_path == SubSeq(parts, 1, k)
       IN IF cnt_path \notin DOMAIN rp THEN SearchFrom(rp, parts, k - 1)
          ELSE LET m == MatchList(rp[cnt_path], 1,
                                  SubSeq(parts, k + 1, Len(parts)))
               IN IF m.kind = "next" THEN SearchFrom(rp, parts, k - 1) ELSE m

\* kind "found": the PathInfo; "none": returns None; "raise": HttpException(404)
get_api_path_info(rp, route) ==
  LET parts == StripSlash(route) IN SearchFrom(rp, parts, Len(parts))

(***************************************************************************)
(* MethodWisePathsInfo.                                                    *)
(***************************************************************************)
Methods == {"GET", "POST", "PUT", "PATCH", "DELETE"}

\* kind "keyerror": self.paths[method] for a method that is no key
get_api_route_path_info(mw, method, target) ==
  IF method \notin DOMAIN mw THEN [kind |-> "keyerror", info |-> <<>>]
  ELSE get_api_path_info(mw[method], target.path)

(***************************************************************************)
(* Dicts, exceptions, the status table.                                    *)
(***************************************************************************)
EmptyDict == [x \in {} |-> NoneV]
\* {**a, **b}
Merge(a, b) == b @@ a
Put(d, k, v) == (k :> v) @@ d
Without(d, k) == [x \in DOMAIN d \ {k} |-> d[x]]

\* the reason phrases the model uses, out of the table 100..511
HTTP_STATUS_CODES ==
  (200 :> "OK") @@ (400 :> "Bad Request") @@ (404 :> "Not Found")
  @@ (422 :> "Unprocessable Entity") @@ (500 :> "Internal Server Error")

\* what handle_request holds in res: a Response, an HttpException or any
\* other exception (kind "other": no write_to_stream)
Response(status_code, header_params, cookies, body) ==
  [kind |-> "response", status |-> status_code, detail |-> <<>>,
   header_params |-> header_params, cookies |-> cookies, body |-> body]
\* HttpException.__init__: an unknown code raises HttpException(500) instead
HttpException(status_code, detail) ==
  [kind |-> "http",
   status |-> IF status_code \in DOMAIN HTTP_STATUS_CODES
              THEN status_code ELSE 500,
   detail |-> IF status_code \in DOMAIN HTTP_STATUS_CODES
              THEN detail ELSE <<"Wrong http code defined.">>,
   header_params |-> <<>>, cookies |-> <<>>, body |-> <<>>]
OtherException(name) ==
  [kind |-> "other", status |-> 0, detail |-> <<name>>,
   header_params |-> <<>>, cookies |-> <<>>, body |-> <<>>]

Ok(v) == [exc |-> <<>>, val |-> v]
Err(e) == [exc |-> <<e>>, val |-> EmptyDict]

(***************************************************************************)
(* PathInfo.verify_* (the binder).                                         *)
(***************************************************************************)
ExpectedType(pathinfo, p, v) ==
  <<p, ", Expected type ", pathinfo.var_types[p], ", Found ", v.t,
    ". Value ", StrOf(v)>>

\* zip(self.path_params, args) from position i
RECURSIVE verify_path_from(_, _, _, _)
verify_path_from(pathinfo, args, i, path) ==
  IF i > Len(pathinfo.path_params) \/ i > Len(args) THEN Ok(path)
  ELSE LET p == pathinfo.path_params[i]
           pval == StrV(args[i])
       IN IF p \notin DOMAIN pathinfo.var_types
          THEN Err(OtherException("KeyError"))
          ELSE IF ~ConvOK(pathinfo.var_types[p], pval)
          THEN Err(HttpException(422, ExpectedType(pathinfo, p, pval)))
          ELSE verify_path_from(pathinfo, args, i + 1,
                 Put(path, p, Conv(pathinfo.var_types[p], pval)))

verify_path_params(pathinfo, args) ==
  verify_path_from(pathinfo, args, 1, EmptyDict)

\* the loop over self.query_params in iteration order, from position i
RECURSIVE verify_query_from(_, _, _, _, _)
verify_query_from(pathinfo, kwargs, order, i, query_list) ==
  IF i > Len(order)
  THEN Ok(Merge(query_list,
                [x \in DOMAIN kwargs \ pathinfo.query_params |-> kwargs[x]]))
  ELSE LET q == order[i] IN
       IF q \notin DOMAIN kwargs /\ q \in DOMAIN pathinfo.defaults
       THEN Err(HttpException(422, <<q, " not given in query params.">>))
       ELSE IF q \notin DOMAIN kwargs
       THEN Err(OtherException("KeyError"))
       ELSE IF ~ConvOK(pathinfo.var_types[q], kwargs[q])
       THEN Err(HttpException(422, ExpectedType(pathinfo, q, kwargs[q])))
       ELSE verify_query_from(pathinfo, kwargs, order, i + 1,
              Put(query_list, q, Conv(pathinfo.var_types[q], kwargs[q])))

verify_query_params(pathinfo, kwargs, order) ==
  verify_query_from(pathinfo, kwargs, order, 1, EmptyDict)

\* Cookies.from_string: s.split("; "), then [k, v] = cookie.split("=")
CookiePieces(s) ==
  CASE s = "a=1; b=2" -> << <<"a", "1">>, <<"b", "2">> >>
    [] s = "b=2" -> << <<"b", "2">> >>
    [] s = "a=1=2" -> << <<"a", "1", "2">> >>
    [] OTHER -> << <<s>> >>

RECURSIVE from_string_from(_, _, _)
from_string_from(pieces, i, cookies) ==
  IF i > Len(pieces) THEN Ok(cookies)
  ELSE IF Len(pieces[i]) # 2 THEN Err(OtherException("ValueError"))
  ELSE from_string_from(pieces, i + 1,
                        Put(cookies, pieces[i][1], StrV(pieces[i][2])))

from_string(s) == from_string_from(CookiePieces(s), 1, EmptyDict)

\* the loop over self.cookies in iteration order, from position i
RECURSIVE verify_cookies_from(_, _, _, _)
verify_cookies_from(pathinfo, order, i, cookies) ==
  IF i > Len(order) THEN Ok(cookies)
  ELSE LET c == order[i]
           c_val == IF c \in DOMAIN cookies THEN cookies[c]
                    ELSE pathinfo.defaults[c]
       IN IF c \notin DOMAIN cookies /\ c \notin DOMAIN pathinfo.defaults
          THEN Err(HttpException(422, <<c, " not given in cookies.">>))
          ELSE IF ~ConvOK(pathinfo.var_types[c], c_val)
          THEN Err(HttpException(422, ExpectedType(pathinfo, c, c_val)))
          ELSE verify_cookies_from(pathinfo, order, i + 1,
                 Put(cookies, c, Conv(pathinfo.var_types[c], c_val)))

verify_cookies(pathinfo, cookies_str, order) ==
  LET parsed == from_string(cookies_str)
  IN IF parsed.exc # <<>> THEN parsed
     ELSE verify_cookies_from(pathinfo, order, 1, parsed.val)

CaseFold(name) ==
  CASE name = "Cookie" -> "cookie"
    [] name = "Content-Length" -> "content-length"
    [] name = "Content-Type" -> "content-type"
    [] name = "Application/Json" -> "application/json"
    [] OTHER -> name

\* the loop over self.headers in iteration order, from position i
RECURSIVE verify_declared_headers(_, _, _, _, _)
verify_declared_headers(pathinfo, kwargs, order, i, headers) ==
  IF i > Len(order) THEN Ok(headers)
  ELSE LET h == order[i]
           h_val == IF h \in DOMAIN kwargs THEN kwargs[h]
                    ELSE pathinfo.defaults[h]
       IN IF h \notin DOMAIN kwargs /\ h \notin DOMAIN pathinfo.defaults
          THEN Err(HttpException(422, <<h, " not given in headers.">>))
          ELSE IF ~ConvOK(pathinfo.var_types[h], h_val)
          THEN Err(HttpException(422, ExpectedType(pathinfo, h, h_val)))
          ELSE verify_declared_headers(pathinfo, kwargs, order, i + 1,
                 Put(headers, h, Conv(pathinfo.var_types[h], h_val)))

\* val is the Headers object: header_params and cookies
verify_headers(pathinfo, kwargs, horder, corder) ==
  LET declared == verify_declared_headers(pathinfo, kwargs, horder, 1, EmptyDict)
      extras == DOMAIN kwargs \ pathinfo.headers
      cookie_hs == {e \in extras : CaseFold(e) = "cookie"}
      plain == [e \in extras \ cookie_hs |-> kwargs[e]]
      cookies == IF cookie_hs = {} THEN Ok(EmptyDict)
                 ELSE verify_cookies(pathinfo,
                        kwargs[CHOOSE e \in cookie_hs : TRUE].s, corder)
  IN IF declared.exc # <<>> THEN declared
     ELSE IF cookies.exc # <<>> THEN cookies
     ELSE Ok([header_params |-> Merge(declared.val, plain),
              cookies |-> cookies.val])

\* the JSON texts StudentIn.model_validate_json accepts
ValidStudentIn == {"{\"name\": \"x\", \"roll\": 1}"}

\* val is Body.value
verify_body(pathinfo, value) ==
  IF pathinfo.body # NoName
  THEN IF value.t = "str" /\ value.s \in ValidStudentIn
       THEN Ok(ModelObj(pathinfo.var_types[pathinfo.body[1]], value.s))
       ELSE Err(HttpException(422, <<"validation error">>))
  ELSE Ok(value)

\* Headers.dict without the cookies
HeadersDictNoCookies(headers) ==
  IF "cookie" \in DOMAIN headers.header_params
  THEN Without(headers.header_params, "cookie") ELSE headers.header_params

\* Headers.dict
HeadersDict(headers) ==
  LET d == Merge(headers.cookies, headers.header_params)
  IN IF "cookie" \in DOMAIN d THEN Without(d, "cookie") ELSE d

(***************************************************************************)
(* RequestHandler.get_valid_params_dict and the return coercion.           *)
(***************************************************************************)
\* valid_params_from with a parameter that has no source left out of the
\* call arguments instead of raising
RECURSIVE valid_params_skips_missing(_, _, _, _, _)
valid_params_skips_missing(request, anns, i, param_val_dict, kwargs) ==
  IF i > Len(anns) THEN Ok(kwargs)
  ELSE LET varname == anns[i].name IN
       IF varname \in DOMAIN param_val_dict
       THEN valid_params_skips_missing(request, anns, i + 1, param_val_dict,
              Put(kwargs, varname, param_val_dict[varname]))
       ELSE IF <<varname>> = request.path_info.body
       THEN valid_params_skips_missing(request, anns, i + 1, param_val_dict,
              Put(kwargs, varname, request.body))
       ELSE IF <<varname>> = request.path_info.request_param
       THEN valid_params_skips_missing(request, anns, i + 1, param_val_dict,
              Put(kwargs, varname, RequestObj))
       ELSE valid_params_skips_missing(request, anns, i + 1, param_val_dict,
              kwargs)

\* the loop over request.annotations.items(), from position i
RECURSIVE valid_params_from(_, _, _, _, _)
valid_params_from(request, anns, i, param_val_dict, kwargs) ==
  IF i > Len(anns) THEN Ok(kwargs)
  ELSE LET varname == anns[i].name IN
       IF varname \in DOMAIN param_val_dict
       THEN valid_params_from(request, anns, i + 1, param_val_dict,
              Put(kwargs, varname, param_val_dict[varname]))
       ELSE IF <<varname>> = request.path_info.body
       THEN valid_params_from(request, anns, i + 1, param_val_dict,
              Put(kwargs, varname, request.body))
       ELSE IF <<varname>> = request.path_info.request_param
       THEN valid_params_from(request, anns, i + 1, param_val_dict,
              Put(kwargs, varname, RequestObj))
       ELSE IF varname = "return"
       THEN valid_params_from(request, anns, i + 1, param_val_dict, kwargs)
       ELSE Err(HttpException(422, <<varname, " not provided.">>))

get_valid_params_dict(request) ==
  valid_params_from(request, Annotations(request.path_info.handler), 1,
    Merge(Merge(request.path_params, request.queries),
          HeadersDict(request.headers)),
    EmptyDict)

\* request.handler(**kwargs) binds: no unexpected keyword, none missing
CallBinds(h, kwargs) ==
  LET args == Handler[h].args
  IN /\ DOMAIN kwargs \subseteq {args[i].name : i \in 1..Len(args)}
     /\ \A i \in 1..Len(args) :
          ~args[i].hasDefault => args[i].name \in DOMAIN kwargs

\* the JSON texts Student.model_validate / model_validate_json accept
ValidStudent == {"{\"id\": 1, \"name\": \"x\", \"roll\": 1}"}
Validates(cls, text) ==
  \/ cls = "Student" /\ text \in ValidStudent
  \/ cls = "StudentIn" /\ text \in ValidStudentIn

ReturnTypeError(return_type, res) ==
  HttpException(500, <<"Return type could not be verified. Expected ",
                       return_type, ", Found ", res.t>>)

\* lines 123-147 of handle_request, for a plain (non-Response) value
Coerce(anns, res) ==
  IF "return" \notin DOMAIN anns THEN Ok(res)
  ELSE LET return_type == anns["return"] IN
       IF return_type = "None" /\ res.t # "None"
       THEN Err(ReturnTypeError(return_type, res))
       \* issubclass(None, BaseModel) raises TypeError
       ELSE IF return_type = "None" THEN Err(OtherException("TypeError"))
       ELSE IF return_type \in StructuredTypes
       THEN IF res.t = return_type THEN Ok(res)
            ELSE IF res.t \in {"str", "dict"} /\ Validates(return_type, res.s)
            THEN Ok(ModelObj(return_type, res.s))
            ELSE Err(ReturnTypeError(return_type, res))
       ELSE IF ConvOK(return_type, res) THEN Ok(Conv(return_type, res))
       ELSE Err(ReturnTypeError(return_type, res))

\* lines 148-154: the default 200 response around a value
Wrap(res) ==
  Response(200, << <<"Content-Type", StrV("Application/Json")>> >>, <<>>, <<res>>)

(***************************************************************************)
(* Serialization: Response.__str__, Headers.__str__, Cookie.__str__,       *)
(* Body.__str__, HttpException.__str__.                                    *)
(***************************************************************************)
Cookie(name, value) ==
  [name |-> name, value |-> value, expires |-> <<>>, max_age |-> <<>>,
   domain |-> <<>>, path |-> <<>>, same_site |-> <<>>, priority |-> <<>>,
   secure |-> FALSE, http_only |-> FALSE]

Attr(label, opt) == IF opt = <<>> THEN <<>> ELSE <<label, opt[1]>>
Flag(label, on) == IF on THEN <<label>> ELSE <<>>

CookieStr(c) ==
  <<c.name, "=", c.value>>
  \o Attr("; Expires=", c.expires) \o Attr("; Max-Age=", c.max_age)
  \o Attr("; Domain=", c.domain) \o Attr("; Path=", c.path)
  \o Attr("; SameSite=", c.same_site) \o Attr("; Priority=", c.priority)
  \o Flag("; Secure", c.secure) \o Flag("; HttpOnly", c.http_only)

RECURSIVE CookiesStr(_)
CookiesStr(cookies) ==
  IF cookies = <<>> THEN <<>>
  ELSE <<"Set-Cookie: ">> \o CookieStr(Head(cookies)) \o <<"\r\n">>
       \o CookiesStr(Tail(cookies))

RECURSIVE HeaderLines(_)
HeaderLines(hs) ==
  IF hs = <<>> THEN <<>>
  ELSE <<Head(hs)[1], ": ", StrOf(Head(hs)[2]), "\r\n">> \o HeaderLines(Tail(hs))

HeadersStr(header_params, cookies) ==
  HeaderLines(header_params) \o CookiesStr(cookies)

\* json.dumps raises TypeError on the objects it cannot encode
JsonSerializable(v) == v.t \in {"int", "None", "dict", "str"}
JsonDumps(v) ==
  CASE v.t = "int" -> FormatInt(v.n)
    [] v.t = "None" -> "null"
    [] OTHER -> v.s

\* str(self.reponse_body): of a Body, or of None when no Body was given
BodyStr(body) ==
  IF body = <<>> THEN <<"None">>
  ELSE IF body[1].t \in StructuredTypes THEN <<body[1].s>>
  ELSE IF body[1].t # "str" THEN <<JsonDumps(body[1])>>
  ELSE <<body[1].s>>

StatusLine(status_code) ==
  <<"HTTP/1.1 ", FormatInt(status_code), " ", HTTP_STATUS_CODES[status_code],
    "\r\n">>

\* whether str(res) raises: an unknown status code, an unencodable body
StrRaises(res) ==
  \/ res.status \notin DOMAIN HTTP_STATUS_CODES
  \/ /\ res.kind = "response" /\ res.body # <<>>
     /\ res.body[1].t \notin StructuredTypes
     /\ ~JsonSerializable(res.body[1])

\* Response.__str__ without the empty line between headers and body
ResponseStrNoBlankLine(res) ==
  StatusLine(res.status) \o HeadersStr(res.header_params, res.cookies)
  \o BodyStr(res.body)

ResponseStr(res) ==
  StatusLine(res.status) \o HeadersStr(res.header_params, res.cookies)
  \o <<"\r\n">> \o BodyStr(res.body)

HttpExceptionStr(e) ==
  StatusLine(e.status) \o <<"\r\n">> \o <<"{\"detail\": \"">> \o e.detail
  \o <<"\"}">>

ToStr(res) ==
  IF res.kind = "response" THEN ResponseStr(res) ELSE HttpExceptionStr(res)

\* what write_to_stream hands to writer.write
WriteOf(res) ==
  IF StrRaises(res) THEN <<"HTTP/1.1 500 Internal Server\r\n">> ELSE ToStr(res)

(***************************************************************************)
(* What clients send and what handlers return.                             *)
(***************************************************************************)
Target(path) == [path |-> path, query |-> <<>>]
\* a target with a "?": query is query_string.split("&"), each pair split
\* on "="
TargetQ(path, pairs) == [path |-> path, query |-> <<pairs>>]

Targets ==
  {Target(<<"", "items", "special">>), Target(<<"", "items", "5">>),
   Target(<<"", "items", "abc">>), Target(<<"", "test", "123">>),
   Target(<<"", "nonexistent">>), Target(<<"", "wrong">>),
   Target(<<"", "search">>),
   TargetQ(<<"", "search">>, << <<"name", "abc">> >>),
   TargetQ(<<"", "search">>, << <<"limit", "25">> >>),
   TargetQ(<<"", "search">>, << <<"name", "abc">>, <<"limit", "25">> >>),
   TargetQ(<<"", "search">>, << <<"name", "abc">>, <<"limit", "xyz">> >>),
   Target(<<"", "verifyHeaders">>), Target(<<"", "verifyCookies">>),
   Target(<<"", "updateStudent">>)}

\* request_line.decode().strip().split(" ") is <<method, target>> \o rest
RequestLines ==
  [method : {"GET", "POST"}, target : Targets, rest : {<<"HTTP/1.1">>}]
  \cup [method : {"DELETE", "OPTIONS"},
        target : {Target(<<"", "nonexistent">>), Target(<<"", "items", "5">>)},
        rest : {<<"HTTP/1.1">>}]
  \cup [method : {"GET"}, target : {Target(<<"", "items", "5">>)},
        rest : {<<>>, <<"HTTP/1.1", "x">>}]

\* header lines up to the empty line, each header.split(":", 1)
HeaderBlocks ==
  {<<>>,
   << <<"Cookie", "a=1; b=2">> >>,
   << <<"Cookie", "b=2">> >>,
   << <<"authentication", "tok">> >>,
   << <<"Content-Length", "2">>, <<"Content-Type", "application/json">> >>,
   << <<"Content-Length", "2">> >>,
   << <<"no separator">> >>}

\* the bytes that follow the headers, in chunks of one unit of length
Bodies ==
  {<<"\"{\\\"name\\\": \\\"x\\\", ", "\\\"roll\\\": 1}\"">>,
   <<"{\"name\": \"x\", ", "\"roll\": 1}">>,
   <<"{\"name\": \"x\", ">>}

\* json.loads
JsonDecodes(data) ==
  data \in {<<"\"{\\\"name\\\": \\\"x\\\", ", "\\\"roll\\\": 1}\"">>,
            <<"{\"name\": \"x\", ", "\"roll\": 1}">>}
JsonLoads(data) ==
  IF data = <<"{\"name\": \"x\", ", "\"roll\": 1}">>
  THEN DictObj("{\"name\": \"x\", \"roll\": 1}")
  ELSE StrV("{\"name\": \"x\", \"roll\": 1}")

Returns(v) == [kind |-> "return", value |-> v, obj |-> <<>>]
ReturnsResponse(r) == [kind |-> "return", value |-> NoneV, obj |-> <<r>>]
Raises(e) == [kind |-> "raise", value |-> NoneV, obj |-> <<e>>]

SessionCookie ==
  [Cookie("sid", "abc") EXCEPT !.max_age = <<"10">>, !.path = <<"/">>,
                               !.http_only = TRUE]

\* a handler that declares a return type is not given a Response to return
Outcomes(h) ==
  {Returns(StrV("Hello, World!")), Returns(NoneV),
   Returns(DictObj("{\"id\": 1, \"name\": \"x\", \"roll\": 1}")),
   Raises(HttpException(404, <<"Student not found for id ", "5", ".">>))}
  \cup (IF Handler[h].ret # NoAnn THEN {}
        ELSE {ReturnsResponse(Response(200, <<>>, <<>>, <<StrV("Hello, World!")>>)),
              ReturnsResponse(Response(200, << <<"X-Id", IntV(5)>> >>,
                                       <<SessionCookie>>, <<DictObj("{}")>>))})
  \cup (IF h = "count" THEN {Returns(StrV("5"))} ELSE {})
  \cup (IF h = "pair"
        THEN {ReturnsResponse(Response(999, <<>>, <<>>, <<StrV("x")>>)),
              Raises(HttpException(999, <<"x">>))}
        ELSE {})

\* the routes an application may declare
Routes ==
  {[method |-> "GET", route |-> <<"", "items", "{id}">>, handler |-> "get_item"],
   [method |-> "GET", route |-> <<"", "items", "special">>, handler |-> "special"],
   [method |-> "GET", route |-> <<"", "items", "{param}">>,
    handler |-> "test_handler"],
   [method |-> "GET", route |-> <<"", "items", "special", "{id}">>,
    handler |-> "get_item"],
   [method |-> "POST", route |-> <<"", "items", "{id}">>, handler |-> "get_item"],
   [method |-> "GET", route |-> <<"", "test", "{param}">>,
    handler |-> "test_handler"],
   [method |-> "GET", route |-> <<"", "search">>, handler |-> "search"],
   [method |-> "GET", route |-> <<"", "verifyHeaders">>,
    handler |-> "verify_headers"],
   [method |-> "GET", route |-> <<"", "verifyCookies">>,
    handler |-> "verify_cookies"],
   [method |-> "POST", route |-> <<"", "updateStudent">>,
    handler |-> "update_student"]}

\* an application with typed returns, several placeholders and a body model
TypedRoutes ==
  {[method |-> "GET", route |-> <<"", "ping">>, handler |-> "ping"],
   [method |-> "GET", route |-> <<"", "count">>, handler |-> "count"],
   [method |-> "POST", route |-> <<"", "createStudent">>,
    handler |-> "create_student"],
   [method |-> "GET", route |-> <<"", "pair", "{a}", "{b}">>, handler |-> "pair"],
   [method |-> "GET", route |-> <<"", "twice", "{a}", "{a}">>,
    handler |-> "twice"],
   [method |-> "GET", route |-> <<"", "token", "{a}">>, handler |-> "by_token"],
   [method |-> "GET", route |-> <<"", "search">>, handler |-> "search"]}

TypedTargets ==
  {Target(<<"", "ping">>), Target(<<"", "count">>),
   Target(<<"", "createStudent">>),
   Target(<<"", "pair", "5", "x">>), Target(<<"", "pair", "x", "5">>),
   Target(<<"", "twice", "x", "y">>), Target(<<"", "twice", "x">>),
   Target(<<"", "token", "x">>),
   TargetQ(<<"", "search">>, << <<"name", "v1", "v2">> >>),
   TargetQ(<<"", "search">>, << <<"name", "abc">>, <<"limit", "25">> >>)}

TypedRequestLines ==
  [method : {"GET", "POST"}, target : TypedTargets, rest : {<<"HTTP/1.1">>}]

TypedHeaderBlocks ==
  {<<>>,
   << <<"a", "tok">> >>,
   << <<"Content-Length", "2">>, <<"Content-Type", "application/json">> >>,
   << <<"Content-Length", "2">>, <<"Content-Type", "text/plain">> >>}

\* an application with a literal segment after a placeholder, and requests
\* with a trailing "/" and with entries named like declared parameters
PathRoutes ==
  {[method |-> "GET", route |-> <<"", "items", "{id}", "details">>,
    handler |-> "get_item"],
   [method |-> "GET", route |-> <<"", "items", "{id}">>, handler |-> "get_item"],
   [method |-> "GET", route |-> <<"", "test", "{param}">>,
    handler |-> "test_handler"],
   [method |-> "GET", route |-> <<"", "search">>, handler |-> "search"],
   [method |-> "GET", route |-> <<"", "verifyHeaders">>,
    handler |-> "verify_headers"]}

PathTargets ==
  {Target(<<"", "items", "5", "details">>), Target(<<"", "items", "5">>),
   Target(<<"", "items", "5", "">>), Target(<<"", "test", "123", "">>),
   TargetQ(<<"", "items", "5">>, << <<"id", "abc">> >>),
   TargetQ(<<"", "search">>, << <<"name", "abc">>, <<"limit", "25">> >>),
   TargetQ(<<"", "verifyHeaders">>, << <<"return", "x">> >>),
   Target(<<"", "verifyHeaders">>)}

PathRequestLines ==
  [method : {"GET"}, target : PathTargets, rest : {<<"HTTP/1.1">>}]

PathHeaderBlocks ==
  {<<>>,
   << <<"name", "tok">> >>,
   << <<"authentication", "tok">> >>,
   << <<"Content-Length", "2">>, <<"Content-Type", "application/json">> >>}

(***************************************************************************)
(* State.                                                                  *)
(***************************************************************************)
VARIABLES
  paths,          \* MethodWisePathsInfo.paths: method -> (prefix -> PathInfos)
  registered,     \* the add_api_route calls made so far, in order
  pc,             \* where handle_request stands for the current connection
  line,           \* the request line read: <<>> or <<request line>>
  path_info,      \* load_from_reader's path_info: <<>> or <<PathInfo>>
  queries,        \* load_from_reader's queries dict
  headers,        \* load_from_reader's headers dict
  content,        \* content_length and content_type: <<>> when None
  request,        \* the Request built: <<>> or <<Request>>
  invoked,        \* <<kwargs>> once request.handler(**kwargs) was entered
  res,            \* handle_request's res: <<>> or <<Response or exception>>
  written,        \* what writer.write was given, in order
  closed,         \* writer.close() was called
  stream_failed,  \* writer.drain() raised
  returned,       \* <<outcome>> once the handler returned or raised
  events          \* the stages passed, in order

vars ==
  <<paths, registered, pc, line, path_info, queries, headers, content,
    request, invoked, res, written, closed, stream_failed, returned,
    events>>

conn_vars ==
  <<pc, line, path_info, queries, headers, content, request, invoked, res,
    written, closed, stream_failed, returned, events>>

NoContent == [length |-> <<>>, type |-> <<>>]

Fresh ==
  /\ pc = "idle" /\ line = <<>> /\ path_info = <<>>
  /\ queries = EmptyDict /\ headers = EmptyDict /\ content = NoContent
  /\ request = <<>> /\ invoked = <<>> /\ res = <<>> /\ written = <<>>
  /\ closed = FALSE /\ stream_failed = FALSE /\ returned = <<>>
  /\ events = <<>>

Init ==
  /\ paths = [m \in Methods |-> EmptyDict]
  /\ registered = <<>>
  /\ Fresh

(***************************************************************************)
(* Registration: FastPy.add_api_route / the get, post, ... decorators.     *)
(***************************************************************************)
Register(r) ==
  /\ pc = "idle"
  /\ Len(registered) < MaxRoutes
  /\ \E order \in Orders(SeqRange(get_path_params(r.route).names)) :
       paths' = [paths EXCEPT ![r.method] =
                   add_api_route(@, r.route, r.handler, order)]
  /\ registered' = Append(registered, r)
  /\ UNCHANGED conn_vars

(***************************************************************************)
(* handle_request, cut at its reads, the handler call and the drains.      *)
(***************************************************************************)
\* lines 155-162: res.write_to_stream(writer) up to its drain; an exception
\* that is no HttpException has no write_to_stream, and Response(500) is
\* written in its place
Respond(r, evs) ==
  /\ res' = <<r>>
  /\ events' = events \o evs \o <<"write">>
  /\ IF r.kind = "other"
     THEN /\ written' = Append(written, WriteOf(Response(500, <<>>, <<>>, <<>>)))
          /\ pc' = "drain2"
     ELSE /\ written' = Append(written, WriteOf(r))
          /\ pc' = "drain1"

\* requests.py lines 65-70
RECURSIVE parse_query_from(_, _, _)
parse_query_from(pairs, i, qs) ==
  IF i > Len(pairs) THEN Ok(qs)
  ELSE IF Len(pairs[i]) # 2 THEN Err(OtherException("ValueError"))
  ELSE parse_query_from(pairs, i + 1, Put(qs, pairs[i][1], StrV(pairs[i][2])))

parse_query(target) ==
  IF target.query = <<>> THEN Ok(EmptyDict)
  ELSE parse_query_from(target.query[1], 1, EmptyDict)

\* requests.py lines 54-70
ReadRequestLine(rl) ==
  /\ pc = "idle"
  /\ line' = <<rl>>
  /\ UNCHANGED returned
  /\ UNCHANGED <<paths, registered, headers, content, request, invoked,
                 closed, stream_failed>>
  /\ IF Len(rl.rest) # 1
     THEN /\ Respond(OtherException("ValueError"), <<"read_line">>)
          /\ UNCHANGED <<path_info, queries>>
     ELSE LET found == get_api_route_path_info(paths, rl.method, rl.target)
              qs == parse_query(rl.target)
              evs == <<"read_line", "resolve">>
          IN CASE found.kind = "keyerror" ->
                    /\ Respond(OtherException("KeyError"), evs)
                    /\ UNCHANGED <<path_info, queries>>
               [] found.kind = "none" ->
                    /\ Respond(HttpException(404, <<"No such route found.">>), evs)
                    /\ UNCHANGED <<path_info, queries>>
               [] found.kind = "raise" ->
                    /\ Respond(HttpException(404, <<"No route found.">>), evs)
                    /\ UNCHANGED <<path_info, queries>>
               [] found.kind = "found" /\ qs.exc # <<>> ->
                    /\ Respond(qs.exc[1], evs)
                    /\ path_info' = found.info
                    /\ UNCHANGED queries
               [] OTHER ->
                    /\ path_info' = found.info
                    /\ queries' = qs.val
                    /\ pc' = "headers"
                    /\ events' = events \o evs
                    /\ UNCHANGED <<res, written>>

\* requests.py lines 72-83, from header line i
RECURSIVE read_headers_from(_, _, _, _)
read_headers_from(lines, i, hs, cnt) ==
  IF i > Len(lines) THEN [exc |-> <<>>, headers |-> hs, content |-> cnt]
  ELSE IF Len(lines[i]) # 2
  THEN [exc |-> <<OtherException("ValueError")>>, headers |-> hs, content |-> cnt]
  ELSE LET name == lines[i][1]
           value == lines[i][2]
       IN IF CaseFold(name) = "content-length" /\ value \notin Numerals
          THEN [exc |-> <<OtherException("ValueError")>>, headers |-> hs,
                content |-> cnt]
          ELSE read_headers_from(lines, i + 1, Put(hs, name, StrV(value)),
                 [length |-> IF CaseFold(name) = "content-length"
                             THEN <<ParseInt(value)>> ELSE cnt.length,
                  type |-> IF CaseFold(name) = "content-type"
                           THEN <<CaseFold(value)>> ELSE cnt.type])

\* requests.py lines 92-109, then main.py lines 118-122: the binder, the
\* call arguments and the call of the handler
BindAndCall(body, hs, qorder, horder, corder, before) ==
  LET pi == path_info[1]
      path == line[1].target.path
      n == Len(pi.path_params)
      \* splits[-n:], which is the whole list for n = 0
      path_vals == IF n = 0 \/ n >= Len(path) THEN path
                   ELSE SubSeq(path, Len(path) - n + 1, Len(path))
      vp == verify_path_params(pi, path_vals)
      vq == verify_query_params(pi, queries, qorder)
      vh == verify_headers(pi, hs, horder, corder)
      vb == verify_body(pi, body)
      req == [path_params |-> vp.val, queries |-> vq.val, headers |-> vh.val,
              body |-> vb.val, path_info |-> pi]
      kw == get_valid_params_dict(req)
      evs == before \o <<"bind">>
      failed == IF vp.exc # <<>> THEN vp.exc
                ELSE IF vq.exc # <<>> THEN vq.exc
                ELSE IF vh.exc # <<>> THEN vh.exc
                ELSE vb.exc
  IN IF failed # <<>>
     THEN Respond(failed[1], evs) /\ UNCHANGED <<request, invoked>>
     ELSE IF kw.exc # <<>>
     THEN Respond(kw.exc[1], evs) /\ request' = <<req>> /\ UNCHANGED invoked
     ELSE IF ~CallBinds(pi.handler, kw.val)
     THEN /\ Respond(OtherException("TypeError"), evs)
          /\ request' = <<req>>
          /\ UNCHANGED invoked
     ELSE /\ request' = <<req>>
          /\ invoked' = <<kw.val>>
          /\ pc' = "handler"
          /\ events' = events \o evs \o <<"invoke">>
          /\ UNCHANGED <<res, written>>

ReadHeaders(block) ==
  /\ pc = "headers"
  /\ UNCHANGED returned
  /\ UNCHANGED <<paths, registered, line, path_info, queries, closed,
                 stream_failed>>
  /\ LET rd == read_headers_from(block, 1, EmptyDict, NoContent) IN
     /\ headers' = rd.headers
     /\ content' = rd.content
     /\ IF rd.exc # <<>>
        THEN /\ Respond(rd.exc[1], <<"read_headers">>)
             /\ UNCHANGED <<request, invoked>>
        ELSE IF rd.content.length # <<>> /\ rd.content.length[1] > 0
        THEN /\ pc' = "body"
             /\ events' = Append(events, "read_headers")
             /\ UNCHANGED <<request, invoked, res, written>>
        ELSE \E qorder \in Orders(path_info[1].query_params),
                horder \in Orders(path_info[1].headers),
                corder \in Orders(path_info[1].cookies) :
               BindAndCall(NoneV, rd.headers, qorder, horder, corder,
                           <<"read_headers">>)

\* requests.py lines 85-90, then the binder and the call
ReadBody(stream) ==
  /\ pc = "body"
  /\ UNCHANGED returned
  /\ UNCHANGED <<paths, registered, line, path_info, queries, headers, content,
                 closed, stream_failed>>
  /\ IF Len(stream) < content.length[1]
     THEN /\ Respond(OtherException("IncompleteReadError"), <<"read_body">>)
          /\ UNCHANGED <<request, invoked>>
     ELSE LET body_data == SubSeq(stream, 1, content.length[1])
              json == content.type # <<>> /\ content.type[1] = "application/json"
          IN IF json /\ ~JsonDecodes(body_data)
             THEN /\ Respond(OtherException("JSONDecodeError"), <<"read_body">>)
                  /\ UNCHANGED <<request, invoked>>
             ELSE \E qorder \in Orders(path_info[1].query_params),
                     horder \in Orders(path_info[1].headers),
                     corder \in Orders(path_info[1].cookies) :
                    BindAndCall(IF json THEN JsonLoads(body_data) ELSE NoneV,
                                headers, qorder, horder, corder, <<"read_body">>)

\* main.py lines 119-154: the handler returns or raises, the value is
\* coerced and wrapped
HandlerReturns ==
  /\ pc = "handler"
  /\ UNCHANGED <<paths, registered, line, path_info, queries, headers, content,
                 request, invoked, closed, stream_failed>>
  /\ \E o \in Outcomes(path_info[1].handler) :
       /\ returned' = <<o>>
       /\ IF o.kind = "raise" THEN Respond(o.obj[1], <<>>)
          ELSE IF o.obj # <<>> THEN Respond(o.obj[1], <<"coerce">>)
          ELSE LET c == Coerce(path_info[1].var_types, o.value)
               IN IF c.exc # <<>> THEN Respond(c.exc[1], <<"coerce">>)
                  ELSE Respond(Wrap(c.val), <<"coerce">>)

\* Drain1 without writer.close()
Drain1NoClose(ok) ==
  /\ pc = "drain1"
  /\ UNCHANGED returned
  /\ UNCHANGED <<paths, registered, line, path_info, queries, headers, content,
                 request, invoked, res, closed>>
  /\ IF ok
     THEN /\ pc' = "done"
          /\ events' = Append(events, "close")
          /\ UNCHANGED <<written, stream_failed>>
     ELSE /\ stream_failed' = TRUE
          /\ written' = Append(written, WriteOf(Response(500, <<>>, <<>>, <<>>)))
          /\ pc' = "drain2"
          /\ events' = Append(events, "write")

\* write_to_stream's finally of the first write: drain, then close; a drain
\* that raises is caught at main.py line 159 and Response(500) is written
Drain1(ok) ==
  /\ pc = "drain1"
  /\ UNCHANGED returned
  /\ UNCHANGED <<paths, registered, line, path_info, queries, headers, content,
                 request, invoked, res>>
  /\ IF ok
     THEN /\ closed' = TRUE
          /\ pc' = "done"
          /\ events' = Append(events, "close")
          /\ UNCHANGED <<written, stream_failed>>
     ELSE /\ stream_failed' = TRUE
          /\ written' = Append(written, WriteOf(Response(500, <<>>, <<>>, <<>>)))
          /\ pc' = "drain2"
          /\ events' = Append(events, "write")
          /\ UNCHANGED closed

\* the finally of Response(500).write_to_stream at main.py line 162; a
\* drain that raises here leaves handle_request
Drain2(ok) ==
  /\ pc = "drain2"
  /\ UNCHANGED returned
  /\ UNCHANGED <<paths, registered, line, path_info, queries, headers, content,
                 request, invoked, res, written>>
  /\ pc' = "done"
  /\ IF ok
     THEN /\ closed' = TRUE
          /\ events' = Append(events, "close")
          /\ UNCHANGED stream_failed
     ELSE /\ stream_failed' = TRUE
          /\ UNCHANGED <<closed, events>>

\* NextConnection with a registry built anew for every connection
NextConnectionFreshRegistry ==
  /\ pc = "done"
  /\ pc' = "idle" /\ line' = <<>> /\ path_info' = <<>>
  /\ queries' = EmptyDict /\ headers' = EmptyDict /\ content' = NoContent
  /\ request' = <<>> /\ invoked' = <<>> /\ res' = <<>> /\ written' = <<>>
  /\ closed' = FALSE /\ stream_failed' = FALSE /\ returned' = <<>>
  /\ events' = <<>>
  /\ paths' = [m \in Methods |-> EmptyDict]
  /\ UNCHANGED registered

\* asyncio.start_server hands the next connection to handle_request
NextConnection ==
  /\ pc = "done"
  /\ pc' = "idle" /\ line' = <<>> /\ path_info' = <<>>
  /\ queries' = EmptyDict /\ headers' = EmptyDict /\ content' = NoContent
  /\ request' = <<>> /\ invoked' = <<>> /\ res' = <<>> /\ written' = <<>>
  /\ closed' = FALSE /\ stream_failed' = FALSE /\ returned' = <<>>
  /\ events' = <<>>
  /\ UNCHANGED <<paths, registered>>

Next ==
  \/ \E r \in Routes : Register(r)
  \/ \E rl \in RequestLines : ReadRequestLine(rl)
  \/ \E block \in HeaderBlocks : ReadHeaders(block)
  \/ \E stream \in Bodies : ReadBody(stream)
  \/ HandlerReturns
  \/ \E ok \in BOOLEAN : Drain1(ok)
  \/ \E ok \in BOOLEAN : Drain2(ok)
  \/ NextConnection

Spec == Init /\ [][Next]_vars

\* the same server under the typed application
NextTyped ==
  \/ \E r \in TypedRoutes : Register(r)
  \/ \E rl \in TypedRequestLines : ReadRequestLine(rl)
  \/ \E block \in TypedHeaderBlocks : ReadHeaders(block)
  \/ \E stream \in Bodies : ReadBody(stream)
  \/ HandlerReturns
  \/ \E ok \in BOOLEAN : Drain1(ok)
  \/ \E ok \in BOOLEAN : Drain2(ok)
  \/ NextConnection

SpecTyped == Init /\ [][NextTyped]_vars

\* the same server under the application of PathRoutes
NextPaths ==
  \/ \E r \in PathRoutes : Register(r)
  \/ \E rl \in PathRequestLines : ReadRequestLine(rl)
  \/ \E block \in PathHeaderBlocks : ReadHeaders(block)
  \/ \E stream \in Bodies : ReadBody(stream)
  \/ HandlerReturns
  \/ \E ok \in BOOLEAN : Drain1(ok)
  \/ \E ok \in BOOLEAN : Drain2(ok)
  \/ NextConnection

SpecPaths == Init /\ [][NextPaths]_vars

(***************************************************************************)
(* Vocabulary of the properties.                                           *)
(***************************************************************************)
\* the request line was split into method, target and version, and the
\* method has a sub-registry: Resolve ran on (ReqMethod, ReqPath)
Resolving ==
  /\ pc # "idle" /\ Len(line[1].rest) = 1 /\ line[1].method \in Methods
ReqMethod == line[1].method
ReqPath == StripSlash(line[1].target.path)

\* the truncation lengths k of the request path whose prefix is registered
\* under the method and holds a descriptor with as many path parameters as
\* segments remain
Candidates ==
  {k \in 1..Len(ReqPath) :
     /\ SubSeq(ReqPath, 1, k) \in DOMAIN paths[ReqMethod]
     /\ \E d \in SeqRange(paths[ReqMethod][SubSeq(ReqPath, 1, k)]) :
          Len(d.path_params) = Len(ReqPath) - k}
Longest == CHOOSE k \in Candidates : \A j \in Candidates : j <= k
\* the first descriptor, in registration order, under the longest candidate
\* prefix whose parameter count fits
FirstFitting ==
  LET list == paths[ReqMethod][SubSeq(ReqPath, 1, Longest)]
      fits == {j \in 1..Len(list) :
                 Len(list[j].path_params) = Len(ReqPath) - Longest}
  IN list[CHOOSE j \in fits : \A i \in fits : j <= i]
Rest == SubSeq(ReqPath, Longest + 1, Len(ReqPath))

IsRegistered(method, route) ==
  \E i \in 1..Len(registered) :
     registered[i].method = method /\ registered[i].route = route

Raised(status) == res # <<>> /\ res[1].kind = "http" /\ res[1].status = status
\* the status code of a written status line
StatusOf(wire) == IF Len(wire) = 1 THEN "500" ELSE wire[2]

ItemsId == <<"", "items", "{id}">>
ItemsParam == <<"", "items", "{param}">>
ItemsSpecial == <<"", "items", "special">>

(***************************************************************************)
(* Properties.                                                             *)
(***************************************************************************)
\* C1: Resolve tries the truncations of the request path from the longest
\* to the shortest, and the longest one that is a registered prefix holding
\* a descriptor with a fitting path-parameter count decides: a descriptor
\* returned is stored under that prefix and fits.  With /items/{id} and
\* /items/special registered under one method, in either order,
\* /items/special resolves to the /items/special descriptor.
C1_LongestPrefixDecides ==
  Resolving =>
    /\ Candidates # {} =>
         \/ /\ Raised(404) /\ res[1].detail = <<"No route found.">>
            /\ path_info = <<>>
         \/ /\ path_info # <<>>
            /\ OriginalRoute(path_info[1].route) = SubSeq(ReqPath, 1, Longest)
            /\ Len(path_info[1].path_params) = Len(ReqPath) - Longest
    /\ ( /\ IsRegistered(ReqMethod, ItemsId)
         /\ IsRegistered(ReqMethod, ItemsSpecial)
         /\ ReqPath = ItemsSpecial )
       => path_info # <<>> /\ path_info[1].route = ItemsSpecial

\* C1 witness: /items/{id} registered before /items/special, and a request
\* for /items/special resolved to the literal route
C1_Witness ==
  /\ Len(registered) = 2
  /\ registered[1].method = "GET" /\ registered[1].route = ItemsId
  /\ registered[2].method = "GET" /\ registered[2].route = ItemsSpecial
  /\ pc = "headers" /\ ReqMethod = "GET" /\ ReqPath = ItemsSpecial
  /\ path_info # <<>> /\ path_info[1].route = ItemsSpecial

\* C2: when the first fitting descriptor under the longest candidate prefix
\* has a converter that rejects a remaining segment, Resolve raises the 404
\* HttpException: no descriptor is returned (no sibling, no shorter prefix),
\* no handler runs and no 422 is written.
C2_RejectedSegmentIs404 ==
  ( /\ Resolving /\ Candidates # {}
    /\ \E x \in 1..Len(Rest) :
         ~SegmentConverts(FirstFitting, FirstFitting.path_params[x], Rest[x]) )
  => /\ path_info = <<>> /\ invoked = <<>>
     /\ Raised(404) /\ res[1].detail = <<"No route found.">>
     /\ written # <<>> /\ StatusOf(written[1]) = "404"
     /\ \A i \in 1..Len(written) : StatusOf(written[i]) # "422"

\* C2 witness: /items/abc with /items/{id} (int) registered before
\* /items/{param} (str), which would have accepted abc
C2_Witness ==
  /\ Len(registered) = 2
  /\ registered[1].method = "GET" /\ registered[1].route = ItemsId
  /\ registered[2].method = "GET" /\ registered[2].route = ItemsParam
  /\ pc = "done" /\ ReqMethod = "GET" /\ ReqPath = <<"", "items", "abc">>
  /\ Raised(404) /\ path_info = <<>>

\* C7: a descriptor Resolve returns was registered under the request's
\* method; Resolve returns None (load_from_reader's "No such route found.")
\* exactly when no truncation is a candidate; with a candidate it returns a
\* descriptor or raises "No route found.".
C7_NotFoundIffNoCandidate ==
  Resolving =>
    /\ path_info # <<>> =>
         \E i \in 1..Len(registered) :
            /\ registered[i].method = ReqMethod
            /\ registered[i].route = path_info[1].route
            /\ registered[i].handler = path_info[1].handler
    /\ (Raised(404) /\ res[1].detail = <<"No such route found.">>)
         <=> (Candidates = {})
    /\ Candidates = {} => path_info = <<>>

\* C7 witness: /items/special/{id} is registered, so the prefix
\* /items/special holds no fitting descriptor for /items/special, and the
\* search went on to the shorter prefix /items
C7_Witness ==
  /\ pc = "headers" /\ ReqMethod = "GET" /\ ReqPath = ItemsSpecial
  /\ IsRegistered("GET", <<"", "items", "special", "{id}">>)
  /\ ~IsRegistered("GET", ItemsSpecial)
  /\ path_info # <<>> /\ path_info[1].route = ItemsParam

Bound == "bind" \in SeqRange(events)

\* C3: a request that resolves to a descriptor with a required query
\* parameter (no default) and omits it fails with a 422 whose detail names
\* the parameter, and the handler is not invoked.
C3_MissingRequiredQueryIs422 ==
  (path_info # <<>> /\ Bound) =>
    \A q \in path_info[1].query_params :
       (q \notin DOMAIN path_info[1].defaults /\ q \notin DOMAIN queries)
       => /\ Raised(422) /\ q \in SeqRange(res[1].detail)
          /\ invoked = <<>>

\* C4: a query parameter with a non-sentinel default binds to the default
\* when the request omits it and to the converted text when the request
\* supplies it (limit: int = 10 gives 10, and 25 for "25"); the other
\* declared query parameters are supplied and convert.
C4_DefaultBindsWhenOmitted ==
  (path_info # <<>> /\ Bound) =>
    LET pi == path_info[1] IN
    \A q \in pi.query_params \cap DOMAIN pi.defaults :
       (\A o \in pi.query_params \ {q} :
           o \in DOMAIN queries /\ ConvOK(pi.var_types[o], queries[o]))
       => /\ q \notin DOMAIN queries =>
               /\ invoked # <<>>
               /\ invoked[1][q] = pi.defaults[q]
          /\ (q \in DOMAIN queries /\ queries[q] = StrV("25")) =>
               /\ invoked # <<>>
               /\ invoked[1][q] = IntV(25)

\* C5: the header Cookie: a=1; b=2 yields the cookie map {a: "1", b: "2"},
\* is not kept as a plain header, and a handler declaring cookie parameter
\* a through the Cookies sentinel is called with a = "1".
C5_CookieHeaderBinds ==
  ( /\ request # <<>> /\ "Cookie" \in DOMAIN headers
    /\ headers["Cookie"] = StrV("a=1; b=2") )
  => /\ request[1].headers.cookies = ("a" :> StrV("1")) @@ ("b" :> StrV("2"))
     /\ "Cookie" \notin DOMAIN request[1].headers.header_params
     /\ "a" \in path_info[1].cookies =>
          invoked # <<>> /\ invoked[1]["a"] = StrV("1")

\* C5 witness: verify_cookies(a: str = Cookies()) entered with a = "1"
C5_Witness ==
  /\ pc = "handler" /\ path_info[1].handler = "verify_cookies"
  /\ headers = ("Cookie" :> StrV("a=1; b=2"))
  /\ invoked = <<("a" :> StrV("1"))>>

C8_KwargsFromSources ==
  request # <<>> =>
    LET rq == request[1]
        pi == rq.path_info
        args == Handler[pi.handler].args
        declared == {args[i].name : i \in 1..Len(args)}
        maps == {rq.path_params, rq.queries, rq.headers.header_params,
                 rq.headers.cookies}
        sourced(p) == \E m \in maps : p \in DOMAIN m
        unsourced == {p \in declared :
                        ~sourced(p) /\ <<p>> # pi.body
                        /\ <<p>> # pi.request_param}
    IN /\ invoked # <<>> =>
            \A p \in declared :
               /\ p \in DOMAIN invoked[1]
               /\ IF sourced(p)
                  THEN \E m \in maps : p \in DOMAIN m /\ invoked[1][p] = m[p]
                  ELSE IF <<p>> = pi.body THEN invoked[1][p] = rq.body
                  ELSE <<p>> = pi.request_param /\ invoked[1][p] = RequestObj
       /\ unsourced # {} =>
            /\ invoked = <<>> /\ Raised(422)
            /\ \E p \in unsourced : res[1].detail = <<p, " not provided.">>
       /\ (pi.route = <<"", "test", "{param}">>
           /\ ReqPath = <<"", "test", "123">>) =>
            invoked # <<>> /\ invoked[1]["param"] = StrV("123")

\* C8 witness: update_student(req: Request, student: StudentIn = ...)
\* entered with the Request and the validated body
C8_Witness ==
  /\ pc = "handler" /\ path_info[1].handler = "update_student"
  /\ invoked # <<>>
  /\ invoked[1]["req"] = RequestObj
  /\ invoked[1]["student"] = ModelObj("StudentIn", "{\"name\": \"x\", \"roll\": 1}")

CountOf(tok, w) == Cardinality({i \in 1..Len(w) : w[i] = tok})

\* C9: a Response is written as the status line, one "name: value" line per
\* header, one Set-Cookie line per cookie, an empty line and the body; a
\* text body unchanged, any other body JSON-encoded.  Response(200,
\* Headers(), Body("Hello, World!")) is "HTTP/1.1 200 OK\r\n\r\nHello, World!".
C9_SerializeFormat ==
  ( /\ res # <<>> /\ res[1].kind = "response" /\ res[1].body # <<>>
    /\ res[1].status \in DOMAIN HTTP_STATUS_CODES )
  => LET r == res[1]
         w == written[1]
         nh == Len(r.header_params)
         nc == Len(r.cookies)
         b == r.body[1]
     IN /\ SubSeq(w, 1, 5) = <<"HTTP/1.1 ", FormatInt(r.status), " ",
                               HTTP_STATUS_CODES[r.status], "\r\n">>
        /\ \A i \in 1..nh :
             SubSeq(w, 4 * i + 2, 4 * i + 5)
               = <<r.header_params[i][1], ": ", StrOf(r.header_params[i][2]),
                   "\r\n">>
        /\ CountOf("Set-Cookie: ", w) = nc
        /\ \A j \in 1..nc :
             \E q \in 4 * nh + 6..Len(w) - 5 :
                SubSeq(w, q, q + 3)
                  = <<"Set-Cookie: ", r.cookies[j].name, "=", r.cookies[j].value>>
        /\ CountOf("\r\n", w) = nh + nc + 2
        /\ w[Len(w) - 1] = "\r\n" /\ w[Len(w) - 2] = "\r\n"
        /\ Last(w) = (CASE b.t = "str" -> b.s
                        [] b.t = "None" -> "null"
                        [] b.t = "int" -> FormatInt(b.n)
                        [] OTHER -> b.s)
        /\ (nh = 0 /\ nc = 0 /\ r.status = 200 /\ b = StrV("Hello, World!")) =>
             w = <<"HTTP/1.1 ", "200", " ", "OK", "\r\n", "\r\n", "Hello, World!">>

\* C9 witness: a handler's Response with a header, a cookie and a
\* structured body was written
C9_Witness ==
  /\ res # <<>> /\ res[1].kind = "response"
  /\ Len(res[1].header_params) = 1 /\ Len(res[1].cookies) = 1
  /\ written =
       << <<"HTTP/1.1 ", "200", " ", "OK", "\r\n", "X-Id", ": ", "5", "\r\n",
            "Set-Cookie: ", "sid", "=", "abc", "; Max-Age=", "10", "; Path=",
            "/", "; HttpOnly", "\r\n", "\r\n", "{}">> >>

\* C10: a parameter declared through the Headers (or Cookies) sentinel whose
\* name is absent from the request's headers (cookies) makes binding fail
\* with a 422 naming it; the sentinel is never converted and handed to the
\* handler.
C10_SentinelNeverDefault ==
  (path_info # <<>> /\ Bound) =>
    /\ \A h \in path_info[1].headers :
         h \notin DOMAIN headers =>
           /\ Raised(422) /\ h \in SeqRange(res[1].detail)
           /\ invoked = <<>>
    /\ \A c \in path_info[1].cookies :
         (\A e \in DOMAIN headers :
             CaseFold(e) = "cookie" =>
               \A i \in 1..Len(CookiePieces(headers[e].s)) :
                  CookiePieces(headers[e].s)[i][1] # c)
         => /\ Raised(422) /\ c \in SeqRange(res[1].detail)
            /\ invoked = <<>>

\* the 4xx status codes of the table
ClientErrorCodes == {"400", "404", "422"}

\* the request is malformed: the request line does not split into three,
\* a header line has no ":", or the stream ended before Content-Length bytes
MalformedRequest ==
  /\ line # <<>> /\ res # <<>>
  /\ \/ Len(line[1].rest) # 1
     \/ /\ res[1] = OtherException("ValueError")
        /\ "read_headers" \in SeqRange(events) /\ ~Bound
     \/ res[1] = OtherException("IncompleteReadError")

\* C11: a malformed request (request line, header line without ":", short
\* body) is answered with a 4xx response, never a 5xx, and the connection
\* is closed once the response is drained.
C11_MalformedIs4xx ==
  MalformedRequest =>
    /\ written # <<>>
    /\ \A i \in 1..Len(written) : StatusOf(written[i]) \in ClientErrorCodes
    /\ (pc = "done" /\ ~stream_failed) => closed

\* C12: whatever path the handling of a connection takes, it does not end
\* with the writer left open.
C12_EveryPathCloses ==
  pc = "done" => closed

\* the handler returned a value that is not a Response
ReturnedValue ==
  /\ returned # <<>> /\ returned[1].kind = "return" /\ returned[1].obj = <<>>

\* C13: after the handler returns a value that is not a Response, the
\* status is 500 exactly when a return type is declared and the value
\* cannot be coerced to it; otherwise (None from a handler declared to
\* return None included) the response is 200 with the JSON content type and
\* the coerced value as body.
C13_500IffNotCoercible ==
  ReturnedValue =>
    LET v == returned[1].value
        anns == path_info[1].var_types
        declared == "return" \in DOMAIN anns
        rt == anns["return"]
        cannot ==
          /\ declared
          /\ \/ rt = "None" /\ v.t # "None"
             \/ /\ rt \in StructuredTypes /\ v.t # rt
                /\ ~(v.t \in {"str", "dict"} /\ Validates(rt, v.s))
             \/ rt \notin StructuredTypes \cup {"None"} /\ ~ConvOK(rt, v)
    IN IF cannot
       THEN StatusOf(written[1]) = "500"
       ELSE /\ StatusOf(written[1]) = "200"
            /\ res[1].kind = "response" /\ res[1].status = 200
            /\ res[1].header_params
                 = << <<"Content-Type", StrV("Application/Json")>> >>
            /\ res[1].body # <<>>
            /\ ~declared => res[1].body = <<v>>
            /\ (declared /\ rt = "None") => res[1].body = <<NoneV>>

\* C14: no Response or HttpException with a status code outside the table
\* exists to be serialized: its construction raised the 500 error.
C14_UnknownStatusRejected ==
  res # <<>> =>
    \/ res[1].kind = "other"
    \/ res[1].status \in DOMAIN HTTP_STATUS_CODES

\* the number of descriptors a sub-registry holds
RECURSIVE CountIn(_, _)
CountIn(rp, keys) ==
  IF keys = {} THEN 0
  ELSE LET k == CHOOSE x \in keys : TRUE
       IN Len(rp[k]) + CountIn(rp, keys \ {k})
DescriptorCount(rp) == CountIn(rp, DOMAIN rp)

\* C15: a registration appends exactly one descriptor at the end of the
\* list under the template's literal prefix in the method's sub-registry;
\* the other sub-registries, the other lists, the descriptors already
\* stored and the connection are unchanged; a duplicate is not rejected;
\* each sub-registry holds as many descriptors as registrations were made
\* under its method.
C15_RegisterAppendsOne ==
  [][ /\ registered' # registered =>
           LET r == Last(registered')
               m == r.method
               key == OriginalRoute(r.route)
               old == IF key \in DOMAIN paths[m] THEN paths[m][key] ELSE <<>>
           IN /\ registered' = Append(registered, r)
              /\ \A m2 \in Methods \ {m} : paths'[m2] = paths[m2]
              /\ DOMAIN paths'[m] = DOMAIN paths[m] \cup {key}
              /\ \A k \in DOMAIN paths[m] \ {key} : paths'[m][k] = paths[m][k]
              /\ paths'[m][key] = Append(old, Last(paths'[m][key]))
              /\ Last(paths'[m][key]).route = r.route
              /\ Last(paths'[m][key]).handler = r.handler
              /\ UNCHANGED conn_vars
      /\ \A m \in Methods :
           DescriptorCount(paths'[m])
             = Cardinality({i \in 1..Len(registered') : registered'[i].method = m})
    ]_vars

\* C15 witness: the same template registered twice under GET, both kept in
\* registration order under one prefix
C15_Witness ==
  /\ Len(registered) = 2 /\ registered[1] = registered[2]
  /\ registered[1].method = "GET" /\ registered[1].route = ItemsId
  /\ Len(paths["GET"][<<"", "items">>]) = 2
  /\ DescriptorCount(paths["GET"]) = 2

(***************************************************************************)
(* The request parser applied to the bytes a response was written as.      *)
(***************************************************************************)
\* the text of a sequence of pieces
RECURSIVE Join(_)
Join(pieces) == IF pieces = <<>> THEN "" ELSE Head(pieces) \o Join(Tail(pieces))

\* reader.readuntil(b"\r\n") from piece i until the empty line: the lines
\* read, each as its pieces
RECURSIVE ReadLinesFrom(_, _, _, _)
ReadLinesFrom(w, i, cur, acc) ==
  IF i > Len(w) THEN acc
  ELSE IF w[i] = "\r\n"
  THEN IF cur = <<>> THEN acc ELSE ReadLinesFrom(w, i + 1, <<>>, Append(acc, cur))
  ELSE ReadLinesFrom(w, i + 1, Append(cur, w[i]), acc)

\* header.split(":", 1) and strip, on a line written by Headers.__str__ or
\* Cookies.__str__
SplitHeader(l) ==
  IF l[1] = "Set-Cookie: " THEN <<"Set-Cookie", Join(Tail(l))>>
  ELSE IF Len(l) >= 2 /\ l[2] = ": " THEN <<l[1], Join(SubSeq(l, 3, Len(l)))>>
  ELSE <<Join(l)>>

\* the header loop of load_from_reader on what follows the first line
ParseHeadersOf(w) ==
  LET ls == ReadLinesFrom(w, 6, <<>>, <<>>)
  IN read_headers_from([i \in 1..Len(ls) |-> SplitHeader(ls[i])], 1,
                       EmptyDict, NoContent)

\* C16: the bytes of a Response with a known status and a JSON-serializable
\* body, read back by the request parser (first line apart), give the same
\* header names and values, the same cookies and the same body.
C16_RoundTrip ==
  ( /\ res # <<>> /\ res[1].kind = "response" /\ written # <<>>
    /\ res[1].status \in DOMAIN HTTP_STATUS_CODES
    /\ res[1].body # <<>> /\ JsonSerializable(res[1].body[1]) )
  => LET r == res[1]
         rd == ParseHeadersOf(written[1])
         names == {r.header_params[i][1] : i \in 1..Len(r.header_params)}
         sent == [c \in {r.cookies[j].name : j \in 1..Len(r.cookies)} |->
                    StrV((CHOOSE x \in SeqRange(r.cookies) : x.name = c).value)]
         body == IF rd.content.length = <<>> THEN NoneV
                 ELSE IF rd.content.length[1] = 0 THEN NoneV
                 ELSE r.body[1]
     IN /\ rd.exc = <<>>
        /\ \A i \in 1..Len(r.header_params) :
             /\ r.header_params[i][1] \in DOMAIN rd.headers
             /\ rd.headers[r.header_params[i][1]]
                  = StrV(StrOf(r.header_params[i][2]))
        /\ {e \in DOMAIN rd.headers : CaseFold(e) # "cookie"} = names
        /\ r.cookies # <<>> =>
             \E e \in DOMAIN rd.headers :
                /\ CaseFold(e) = "cookie"
                /\ from_string(rd.headers[e].s).exc = <<>>
                /\ from_string(rd.headers[e].s).val = sent
        /\ body = r.body[1]

\* the descriptors stored in the registry
Descriptors ==
  UNION {SeqRange(paths[m][k]) : <<m, k>> \in
           UNION {{<<m2, k2>> : k2 \in DOMAIN paths[m2]} : m2 \in Methods}}

\* the sources a descriptor gives a parameter name
SourcesOf(d, p) ==
  {x \in {"header", "cookie", "path", "body", "context", "query"} :
     \/ x = "header" /\ p \in d.headers
     \/ x = "cookie" /\ p \in d.cookies
     \/ x = "path" /\ p \in SeqRange(d.path_params)
     \/ x = "body" /\ d.body = <<p>>
     \/ x = "context" /\ d.request_param = <<p>>
     \/ x = "query" /\ p \in d.query_params}

\* C17: every declared parameter of a registered handler has exactly one
\* source, given by the first rule that applies: header sentinel, cookie
\* sentinel, placeholder name (path), structured declared type (body),
\* Request declared type (context), else query.
C17_ClassifyPrecedence ==
  \A d \in Descriptors :
    LET args == Handler[d.handler].args
        placeholders == SeqRange(get_path_params(d.route).names)
    IN \A i \in 1..Len(args) :
         LET a == args[i]
             expected ==
               IF a.hasDefault /\ a.default.t = "Headers" THEN "header"
               ELSE IF a.hasDefault /\ a.default.t = "Cookies" THEN "cookie"
               ELSE IF a.name \in placeholders THEN "path"
               ELSE IF a.ann \in StructuredTypes THEN "body"
               ELSE IF a.ann = "Request" THEN "context"
               ELSE "query"
         IN SourcesOf(d, a.name) = {expected}

\* C18: a descriptor's path parameters are the template's placeholders in
\* template order, one per placeholder, and the j-th remaining segment of a
\* bound request is converted with the j-th placeholder's converter and
\* bound to its name.
C18_PathParamsInTemplateOrder ==
  /\ \A d \in Descriptors : d.path_params = get_path_params(d.route).names
  /\ request # <<>> =>
       LET d == request[1].path_info
           names == get_path_params(d.route).names
           k == Len(names)
           path == line[1].target.path
       IN \A j \in 1..k :
            /\ names[j] \in DOMAIN request[1].path_params
            /\ request[1].path_params[names[j]]
                 = Conv(d.var_types[names[j]], StrV(path[Len(path) - k + j]))

\* the text of pieces joined by "="
RECURSIVE JoinEq(_)
JoinEq(pieces) ==
  IF Len(pieces) = 1 THEN pieces[1]
  ELSE pieces[1] \o "=" \o JoinEq(Tail(pieces))

\* C19: each pair of the query string is split on its first "=" only:
\* k=v1=v2 gives name k with value "v1=v2" and parsing succeeds.
C19_SplitOnFirstEquals ==
  (path_info # <<>> /\ line[1].target.query # <<>>) =>
    \A pair \in SeqRange(line[1].target.query[1]) :
       Len(pair) >= 2 =>
         /\ pair[1] \in DOMAIN queries
         /\ queries[pair[1]] = StrV(JoinEq(Tail(pair)))

\* body bytes kept undecoded
RawBytes(data) == [t |-> "bytes", s |-> Join(data), n |-> 0]

\* C20: with Content-Length n > 0 the first n units of the stream are the
\* body: JSON-decoded (and validated into the body model, if one is
\* declared) when Content-Type is application/json, otherwise kept as the raw
\* bytes, never dropped.
C20_BodyKept ==
  (request # <<>> /\ content.length # <<>> /\ content.length[1] > 0) =>
    \E stream \in Bodies :
       /\ Len(stream) >= content.length[1]
       /\ LET data == SubSeq(stream, 1, content.length[1])
          IN IF content.type # <<>> /\ content.type[1] = "application/json"
             THEN /\ JsonDecodes(data)
                  /\ request[1].body
                       \in {JsonLoads(data),
                            ModelObj("StudentIn", JsonLoads(data).s)}
             ELSE request[1].body = RawBytes(data)

\* the place of a stage in the order: request line, headers, body, resolve,
\* bind, invoke, coerce, write, close
StageRank(e) ==
  CASE e = "read_line" -> 1 [] e = "read_headers" -> 2 [] e = "read_body" -> 3
    [] e = "resolve" -> 4 [] e = "bind" -> 5 [] e = "invoke" -> 6
    [] e = "coerce" -> 7 [] e = "write" -> 8 [] e = "close" -> 9

\* C21: the stages of one connection happen in the order read (request
\* line, headers, body), resolve, bind, invoke, coerce, write, close, each
\* at most once; the registry is consulted only after the headers were
\* read, and the handler is invoked only after the binder ran.
C21_StagesInOrder ==
  /\ \A i, j \in 1..Len(events) :
       i < j => StageRank(events[i]) < StageRank(events[j])
  /\ \A i \in 1..Len(events) :
       /\ events[i] = "resolve" => \E j \in 1..i : events[j] = "read_headers"
       /\ events[i] = "invoke" => \E j \in 1..i : events[j] = "bind"

\* C22: a step that is no registration leaves every sub-registry, list and
\* descriptor as it was.
C22_ServingKeepsRegistry ==
  [][registered' = registered => paths' = paths]_vars

\* C22 witness: a request that resolved and failed in the binder was
\* answered and closed, with every registered descriptor still stored
C22_Witness ==
  /\ pc = "done" /\ closed /\ Raised(422) /\ path_info # <<>>
  /\ Len(registered) = MaxRoutes
  /\ \A m \in Methods :
       DescriptorCount(paths[m])
         = Cardinality({i \in 1..Len(registered) : registered[i].method = m})

\* the path has the template's length and equals it at every literal segment
MatchesTemplate(template, path) ==
  /\ Len(path) = Len(template)
  /\ \A i \in 1..Len(template) :
       IsPlaceholder(template[i]) \/ template[i] = path[i]

ItemsIdDetails == <<"", "items", "{id}", "details">>

\* C23: a descriptor Resolve returns has a template the whole request path
\* matches, literal segments after the first placeholder included:
\* /items/{id}/details is returned for /items/5/details, not for /items/5.
C23_WholeTemplateMatches ==
  Resolving =>
    /\ path_info # <<>> => MatchesTemplate(path_info[1].route, ReqPath)
    /\ ( /\ ReqPath = <<"", "items", "5", "details">>
         /\ IsRegistered(ReqMethod, ItemsIdDetails) )
       => path_info # <<>> /\ path_info[1].route = ItemsIdDetails

\* C24: the handler's value for a path parameter or a declared query
\* parameter is the converted value from the parameter's own source,
\* whatever extra query entries, headers or cookies carry the same name.
C24_ExtrasNeverOverride ==
  invoked # <<>> =>
    LET rq == request[1]
        d == rq.path_info
    IN /\ \A p \in SeqRange(d.path_params) :
            p \in DOMAIN invoked[1] /\ invoked[1][p] = rq.path_params[p]
       /\ \A q \in d.query_params :
            q \in DOMAIN queries =>
              /\ q \in DOMAIN invoked[1]
              /\ invoked[1][q] = Conv(d.var_types[q], queries[q])

\* C25: when Resolve accepted the path (trailing "/" stripped), the binder
\* converts the segments the matcher validated: path binding does not fail
\* and each path parameter is bound to the value the matcher converted.
C25_BinderAgreesWithMatcher ==
  (Resolving /\ path_info # <<>> /\ Bound) =>
    LET d == path_info[1]
        k == Len(d.path_params)
        seg(j) == StrV(ReqPath[Len(ReqPath) - k + j])
    IN /\ ~\E p \in SeqRange(d.path_params),
              v \in SeqRange(line[1].target.path) :
            res = <<HttpException(422, ExpectedType(d, p, StrV(v)))>>
       /\ request # <<>> =>
            \A j \in 1..k :
               request[1].path_params[d.path_params[j]]
                 = Conv(d.var_types[d.path_params[j]], seg(j))

\* C26: the keyword arguments built for the handler are names of its
\* declared parameters, whatever the request carries.
C26_KwargsAreParameters ==
  request # <<>> =>
    LET args == Handler[request[1].path_info.handler].args
        declared == {args[i].name : i \in 1..Len(args)}
        kw == get_valid_params_dict(request[1])
    IN /\ kw.exc = <<>> => DOMAIN kw.val \subseteq declared
       /\ invoked # <<>> => DOMAIN invoked[1] \subseteq declared

\* C27: at most one response is written to a connection, also when the
\* drain after the first write raises.
C27_AtMostOneResponse ==
  Len(written) <= 1

\* C28: a request whose method is none of GET, POST, PUT, PATCH, DELETE is
\* answered with the 404 of an unresolved route, not with a 500.
C28_UnknownMethodIs404 ==
  ( /\ line # <<>> /\ Len(line[1].rest) = 1
    /\ line[1].method \notin Methods )
  => /\ Raised(404)
     /\ written # <<>> /\ StatusOf(written[1]) = "404"

====
